---- MODULE Spec2Model ----
(***************************************************************************)
(* Statistics aggregation of scripts/generate_statistics.py and            *)
(* scripts/institution-statistics.py: per-layer classification and         *)
(* grouping, the per-institution history with its Total row, and the       *)
(* overview table.                                                         *)
(***************************************************************************)
EXTENDS Integers, Sequences, FiniteSets, TLC

VARIABLES
    script,              \* which of the two scripts is running
    layers,              \* fiona.listlayers(input_file_path): the layers of the GeoPackage
    idx,                 \* position of the `for layer in layers` loop (1-based)
    pc,                  \* "start", "loop", "done", "halted", "crashed"; "harness" under SpecLayer
    institution_summary, \* dict institution -> list of per-layer batches
    all_statistics,      \* list of the grouped frames feeding the overview
    files,               \* statistics folder: institution -> table last written
    overview_df,         \* rows of institution_overview.csv once pc = "done"
    gdf,                 \* harness: the frame object handed to process_layer
    classified,          \* harness: the frame process_layer worked on, after its last call
    results              \* harness: the grouped frames returned by the calls so far

vars == <<script, layers, idx, pc, institution_summary, all_statistics, files,
          overview_df, gdf, classified, results>>

(***************************************************************************)
(* Bounds                                                                  *)
(***************************************************************************)
MaxLayers == 3
MaxRows == 2
MaxCalls == 2

(***************************************************************************)
(* Values                                                                  *)
(***************************************************************************)
NaN == "NaN"

\* Group keys in the order pandas sorts them (groupby sorts its keys).
InstitutionNames == <<"AWI", "BAS">>
CampaignNames == <<"2019", "2020", "Unknown">>

TargetCRS == "EPSG:3031"
NoCRS == "None"
OtherCRS == "EPSG:4326"

\* A geometry: its type, its length in the units of the frame's CRS, and the
\* length it has once reprojected to EPSG:3031 (meters).
Geometry(t, len, proj) == [type |-> t, length |-> len, projected |-> proj]

\* Python's round(): round half to even, on len / unit.
round(len, unit) ==
    LET q == len \div unit
        r == len % unit
    IN  IF 2 * r < unit THEN q
        ELSE IF 2 * r > unit THEN q + 1
        ELSE IF q % 2 = 0 THEN q ELSE q + 1

calculate_distance(geometry) ==
    IF geometry.type = "MultiPoint" THEN round(geometry.length, 1000)
    ELSE IF geometry.type = "LineString" THEN round(geometry.length, 1000)
    ELSE IF geometry.type = "Point" THEN 0
    ELSE 0

determine_availability(row) ==
    IF row.availability = "s" THEN "yes"
    ELSE IF row.availability = "u" THEN "no"
    ELSE "outdated"

\* "{:,}".format(number): the digit groups of three, most significant first.
RECURSIVE format_with_commas(_)
format_with_commas(number) ==
    IF number < 1000 THEN <<number>>
    ELSE Append(format_with_commas(number \div 1000), number % 1000)

(***************************************************************************)
(* Frames.  A frame has a set of attribute columns, a CRS and rows; a row  *)
(* carries every field, and a field whose column is absent holds NaN.      *)
(***************************************************************************)
Row(g, i, c, a) ==
    [geometry |-> g, institution |-> i, campaign |-> c, availability |-> a,
     total_distance_km |-> 0, available_distance_km |-> 0]

Frame(cols, crs, rows) == [columns |-> cols, crs |-> crs, rows |-> rows]

\* gdf.to_crs("EPSG:3031"): a new frame, every geometry reprojected.
to_crs(frame) ==
    [frame EXCEPT !.crs = TargetCRS,
                  !.rows = [j \in DOMAIN frame.rows |->
                              [frame.rows[j] EXCEPT !.geometry =
                                  Geometry(@.type, @.projected, @.projected)]]]

\* Lines 42-48: the object the caller passed (set_crs is in place) and the
\* frame the rest of process_layer works on (to_crs makes a new one).
set_crs(frame) ==
    IF frame.crs = NoCRS THEN [frame EXCEPT !.crs = TargetCRS] ELSE frame

normalized(frame) ==
    IF set_crs(frame).crs # TargetCRS THEN to_crs(set_crs(frame)) ELSE set_crs(frame)

\* Lines 55-57: the available distance of one row of a frame that has an
\* availability column.
AvailableDistanceMutant(row) ==
    IF row.availability = "u" THEN calculate_distance(row.geometry) ELSE 0
available_distance(row) ==
    IF row.availability = "s" THEN calculate_distance(row.geometry) ELSE 0

\* Lines 50-65: distances, availability class and the campaign default.
classify(frame) ==
    LET hasAvail == "availability" \in frame.columns
        hasCamp == "campaign" \in frame.columns
    IN  [frame EXCEPT
           !.columns = @ \cup {"total_distance_km", "available_distance_km",
                               "availability", "campaign"},
           !.rows = [j \in DOMAIN frame.rows |->
               LET row == frame.rows[j]
               IN  [row EXCEPT
                      !.total_distance_km = calculate_distance(row.geometry),
                      !.available_distance_km =
                          IF hasAvail THEN available_distance(row) ELSE 0,
                      !.availability =
                          IF hasAvail THEN determine_availability(row) ELSE "outdated",
                      !.campaign = IF hasCamp THEN row.campaign ELSE "Unknown"]]]

RECURSIVE SumColumn(_, _)
SumColumn(rows, col) ==
    IF rows = <<>> THEN 0 ELSE rows[1][col] + SumColumn(Tail(rows), col)

\* The (institution, campaign) keys in sorted order.
GroupKeys ==
    [k \in 1..(Len(InstitutionNames) * Len(CampaignNames)) |->
        [institution |-> InstitutionNames[((k - 1) \div Len(CampaignNames)) + 1],
         campaign |-> CampaignNames[((k - 1) % Len(CampaignNames)) + 1]]]

\* Lines 68-71: groupby(['institution', 'campaign']).agg(sum).reset_index().
\* A row whose institution or campaign is missing (NaN) is in no group.
groupby(rows) ==
    LET member(key) == SelectSeq(rows, LAMBDA r: r.institution = key.institution
                                                  /\ r.campaign = key.campaign)
        keys == SelectSeq(GroupKeys, LAMBDA key: member(key) # <<>>)
    IN  [k \in DOMAIN keys |->
            [institution |-> keys[k].institution,
             campaign |-> keys[k].campaign,
             total_distance_km |-> SumColumn(member(keys[k]), "total_distance_km"),
             available_distance_km |-> SumColumn(member(keys[k]), "available_distance_km")]]

(***************************************************************************)
(* The institution history and its table (lines 74-98).                    *)
(***************************************************************************)
\* pd.concat(frames, ignore_index=True): the rows of the frames, in order.
RECURSIVE concat(_)
concat(frames) ==
    IF frames = <<>> THEN <<>> ELSE frames[1] \o concat(Tail(frames))

\* Lines 82-88: the Total row of an institution's concatenated history.
institution_total(institution_df, institution) ==
    [institution |-> institution, campaign |-> "Total",
     total_distance_km |-> SumColumn(institution_df, "total_distance_km"),
     available_distance_km |-> SumColumn(institution_df, "available_distance_km"),
     availability |-> "N/A"]

\* Lines 81-93: the table written for an institution: the concatenated
\* history (its rows have no availability value), the Total row, and the two
\* distance columns formatted.
RECURSIVE EarlierTotals(_, _)
EarlierTotals(history, col) ==
    IF Len(history) <= 1 THEN 0
    ELSE LET earlier == SubSeq(history, 1, Len(history) - 1)
         IN  SumColumn(concat(earlier), col) + EarlierTotals(earlier, col)
InstitutionTableMutant(history, institution) ==
    LET institution_df == concat(history)
        raw == [j \in DOMAIN institution_df |->
                  [institution |-> institution_df[j].institution,
                   campaign |-> institution_df[j].campaign,
                   total_distance_km |-> institution_df[j].total_distance_km,
                   available_distance_km |-> institution_df[j].available_distance_km,
                   availability |-> NaN]]
        total == institution_total(institution_df, institution)
        full == Append(raw,
                  [total EXCEPT
                     !.total_distance_km = @ + EarlierTotals(history, "total_distance_km"),
                     !.available_distance_km =
                         @ + EarlierTotals(history, "available_distance_km")])
    IN  [j \in DOMAIN full |->
            [full[j] EXCEPT
               !.total_distance_km = format_with_commas(@),
               !.available_distance_km = format_with_commas(@)]]
institution_table(history, institution) ==
    LET institution_df == concat(history)
        raw == [j \in DOMAIN institution_df |->
                  [institution |-> institution_df[j].institution,
                   campaign |-> institution_df[j].campaign,
                   total_distance_km |-> institution_df[j].total_distance_km,
                   available_distance_km |-> institution_df[j].available_distance_km,
                   availability |-> NaN]]
        full == Append(raw, institution_total(institution_df, institution))
    IN  [j \in DOMAIN full |->
            [full[j] EXCEPT
               !.total_distance_km = format_with_commas(@),
               !.available_distance_km = format_with_commas(@)]]

\* The institutions of a grouped frame, in the order grouped.groupby yields them.
institutions_of(grouped) ==
    SelectSeq(InstitutionNames, LAMBDA i: \E j \in DOMAIN grouped: grouped[j].institution = i)

\* A fault of the environment while a layer is handled: none, an exception
\* raised while the frame is prepared (lines 42-71), or to_csv raising for
\* one institution's file (line 97).
NoFault == [at |-> "none", institution |-> NaN]
ProcessFault == [at |-> "process", institution |-> NaN]
WriteFault(i) == [at |-> "to_csv", institution |-> i]

\* dict lookup with the `if institution not in institution_summary` default.
history_of(summary, institution) ==
    IF institution \in DOMAIN summary THEN summary[institution] ELSE <<>>

\* Lines 74-98: the loop over the institutions of the grouped frame.  The
\* batch is appended to the history before the table is built and written;
\* an exception from to_csv leaves the loop.
append_batch(history, institution_data) == Append(history, institution_data)

RECURSIVE institution_loop(_, _, _, _, _)
institution_loop(insts, grouped, summary, written, fault) ==
    IF insts = <<>>
    THEN [institution_summary |-> summary, files |-> written, raised |-> FALSE]
    ELSE LET institution == Head(insts)
             institution_data == SelectSeq(grouped, LAMBDA r: r.institution = institution)
             history == append_batch(history_of(summary, institution), institution_data)
             summary1 == (institution :> history) @@ summary
         IN  IF fault = WriteFault(institution)
             THEN [institution_summary |-> summary1, files |-> written, raised |-> TRUE]
             ELSE institution_loop(Tail(insts), grouped, summary1,
                      (institution :> institution_table(history, institution)) @@ written,
                      fault)

\* What a call returns: None (no institution column) or the grouped frame.
ReturnNone == [is_none |-> TRUE, rows |-> <<>>]
Returned(grouped) == [is_none |-> FALSE, rows |-> grouped]

\* process_layer(gdf, statistics_folder, institution_summary).  The result
\* holds the caller's frame object after the call (arg), the frame the call
\* worked on (frame), the value returned, whether an exception left the call,
\* and the dict and the folder after it.
\* Lines 37-38: a frame without an institution column returns at once.
NoInstitutionMutant(frame, summary, written) ==
    [arg |-> frame, frame |-> frame, grouped |-> Returned(<<>>), raised |-> FALSE,
     institution_summary |-> summary, files |-> written]
no_institution(frame, summary, written) ==
    [arg |-> frame, frame |-> frame, grouped |-> ReturnNone, raised |-> FALSE,
     institution_summary |-> summary, files |-> written]

process_layer(frame, summary, written, fault) ==
    IF "institution" \notin frame.columns
    THEN no_institution(frame, summary, written)
    ELSE LET arg1 == set_crs(frame)
             copied == arg1.crs # TargetCRS
             work == classify(normalized(frame))
             grouped == groupby(work.rows)
             loop == institution_loop(institutions_of(grouped), grouped, summary,
                                      written, fault)
         IN  IF fault = ProcessFault
             THEN [arg |-> arg1, frame |-> normalized(frame), grouped |-> ReturnNone,
                   raised |-> TRUE, institution_summary |-> summary, files |-> written]
             ELSE [arg |-> IF copied THEN arg1 ELSE work,
                   frame |-> work,
                   grouped |-> IF loop.raised THEN ReturnNone ELSE Returned(grouped),
                   raised |-> loop.raised,
                   institution_summary |-> loop.institution_summary,
                   files |-> loop.files]

(***************************************************************************)
(* The run: the layer loop and the overview.                               *)
(***************************************************************************)
GenerateStatistics == "generate_statistics.py"
InstitutionStatistics == "institution-statistics.py"
Scripts == {GenerateStatistics, InstitutionStatistics}

\* One layer of the GeoPackage: whether gpd.read_file can read it, the frame
\* it reads as, and the fault its handling meets.
Layer(f, fault) == [readable |-> TRUE, gdf |-> f, fault |-> fault]

\* One pass of the body of `for layer in layers`.
\* generate_statistics.py (lines 127-133) catches every exception of the read
\* and of process_layer; institution-statistics.py (lines 50-58, 121) catches
\* the read alone, and an exception of the processing ends the script.
loop_body(scr, layer, summary, stats, written) ==
    IF ~layer.readable
    THEN [institution_summary |-> summary, all_statistics |-> stats,
          files |-> written, crashed |-> FALSE]
    ELSE LET r == process_layer(layer.gdf, summary, written, layer.fault)
         IN  [institution_summary |-> r.institution_summary,
              all_statistics |-> IF r.raised \/ r.grouped.is_none
                                 THEN stats
                                 ELSE Append(stats, r.grouped.rows),
              files |-> r.files,
              crashed |-> r.raised /\ scr = InstitutionStatistics]

\* Lines 136-146: the overview rows, one per institution in sorted order.
OverviewMutant(stats) ==
    LET all_statistics_df == stats[Len(stats)]
        member(i) == SelectSeq(all_statistics_df, LAMBDA r: r.institution = i)
        keys == SelectSeq(InstitutionNames, LAMBDA i: member(i) # <<>>)
    IN  [k \in DOMAIN keys |->
            [institution |-> keys[k],
             total_distance_km |->
                 format_with_commas(SumColumn(member(keys[k]), "total_distance_km")),
             available_distance_km |->
                 format_with_commas(SumColumn(member(keys[k]), "available_distance_km"))]]
overview(stats) ==
    LET all_statistics_df == concat(stats)
        member(i) == SelectSeq(all_statistics_df, LAMBDA r: r.institution = i)
        keys == SelectSeq(InstitutionNames, LAMBDA i: member(i) # <<>>)
    IN  [k \in DOMAIN keys |->
            [institution |-> keys[k],
             total_distance_km |->
                 format_with_commas(SumColumn(member(keys[k]), "total_distance_km")),
             available_distance_km |->
                 format_with_commas(SumColumn(member(keys[k]), "available_distance_km"))]]

\* Geometries of the inputs.
LineString(m) == Geometry("LineString", m, m)
MultiPoint(m) == Geometry("MultiPoint", m, m)
Point == Geometry("Point", 0, 0)
Polygon(m) == Geometry("Polygon", m, m)
\* A geometry held in degrees, of m meters once projected.
Geographic(t, m) == Geometry(t, 3, m)

AllColumns == {"institution", "campaign", "availability"}

\* The frames the layers of a run read as.
NoInstitutionFrame ==
    Frame({"campaign", "availability"}, TargetCRS,
          <<Row(LineString(4000), NaN, "2019", "s")>>)
FrameA ==
    Frame(AllColumns, TargetCRS, <<Row(LineString(5000), "AWI", "2020", "s")>>)
FrameNoAvailability ==
    Frame({"institution", "campaign"}, NoCRS,
          <<Row(LineString(3000), "AWI", "2020", NaN),
            Row(Polygon(4000), "AWI", "2020", NaN)>>)
FrameAB ==
    Frame(AllColumns, OtherCRS,
          <<Row(Geographic("LineString", 2000), "AWI", "2019", "u"),
            Row(Geographic("MultiPoint", 2500), "BAS", "2019", "s"),
            Row(Geographic("LineString", 7000), NaN, "2019", "s"),
            Row(Geographic("LineString", 1500), "BAS", "2019", "o")>>)
FrameNoCampaign ==
    Frame({"institution", "availability"}, TargetCRS,
          <<Row(LineString(1200000), "BAS", NaN, "s"),
            Row(MultiPoint(3500), "BAS", NaN, "u"),
            Row(Point, "BAS", NaN, "s")>>)

Unreadable == [readable |-> FALSE, gdf |-> Frame({}, NoCRS, <<>>), fault |-> NoFault]

LayerInputs ==
    {Unreadable,
     Layer(NoInstitutionFrame, NoFault),
     Layer(FrameA, NoFault),
     Layer(FrameNoAvailability, NoFault),
     Layer(FrameAB, NoFault),
     Layer(FrameNoCampaign, NoFault),
     Layer(FrameA, ProcessFault),
     Layer(FrameAB, WriteFault("AWI")),
     Layer(FrameAB, WriteFault("BAS"))}

LayerLists == UNION {[1..n -> LayerInputs] : n \in 0..MaxLayers}

Init ==
    /\ script \in Scripts
    /\ layers \in LayerLists
    /\ idx = 1
    /\ pc = "start"
    /\ institution_summary = <<>>
    /\ all_statistics = <<>>
    /\ files = <<>>
    /\ overview_df = <<>>
    /\ gdf = Unreadable.gdf
    /\ classified = Unreadable.gdf
    /\ results = <<>>

\* generate_statistics.py lines 113-124: an empty layer list is reported and
\* main returns.  institution-statistics.py lines 44-48 has no such check.
ListLayers ==
    /\ pc = "start"
    /\ pc' = IF script = GenerateStatistics /\ layers = <<>> THEN "halted" ELSE "loop"
    /\ UNCHANGED <<script, layers, idx, institution_summary, all_statistics, files,
                   overview_df, gdf, classified, results>>

\* One iteration of the layer loop.
ProcessLayer ==
    /\ pc = "loop"
    /\ idx <= Len(layers)
    /\ LET r == loop_body(script, layers[idx], institution_summary, all_statistics, files)
       IN  /\ institution_summary' = r.institution_summary
           /\ all_statistics' = r.all_statistics
           /\ files' = r.files
           /\ pc' = IF r.crashed THEN "crashed" ELSE "loop"
           /\ idx' = IF r.crashed THEN idx ELSE idx + 1
    /\ UNCHANGED <<script, layers, overview_df, gdf, classified, results>>

\* After the loop (generate_statistics.py lines 136-151, institution-statistics.py
\* lines 124-139): pd.concat raises ValueError on an empty list, which nothing
\* catches; otherwise the overview is written.
Overview ==
    /\ pc = "loop"
    /\ idx > Len(layers)
    /\ IF all_statistics = <<>>
       THEN pc' = "crashed" /\ UNCHANGED overview_df
       ELSE pc' = "done" /\ overview_df' = overview(all_statistics)
    /\ UNCHANGED <<script, layers, idx, institution_summary, all_statistics, files,
                   gdf, classified, results>>

Next == ListLayers \/ ProcessLayer \/ Overview

Spec == Init /\ [][Next]_vars

(***************************************************************************)
(* process_layer on its own: a frame drawn from a wider set is handed to   *)
(* process_layer, and the same frame object is handed to it again.         *)
(***************************************************************************)
InstitutionValues == {"AWI", "BAS", NaN}
CampaignValues == {"2019", "2020", NaN}
AvailabilityValues == {"s", "u", "o", NaN}
GeometryShapes ==
    {<<"LineString", 5000>>, <<"LineString", 2500>>, <<"MultiPoint", 3500>>,
     <<"Point", 0>>, <<"Polygon", 4000>>}
CRSValues == {NoCRS, TargetCRS, OtherCRS}

\* The values a field takes: those of its column, or NaN when the frame has
\* no such column.
FieldValues(cols, col, values) == IF col \in cols THEN values ELSE {NaN}

\* Frames of one row, every field and the CRS varied.
OneRowFrames ==
    {Frame(cols, crs, <<Row(IF crs = OtherCRS THEN Geographic(s[1], s[2])
                                              ELSE Geometry(s[1], s[2], s[2]), i, c, a)>>) :
        <<cols, crs, s, i, c, a>> \in
            {t \in (SUBSET AllColumns) \X CRSValues \X GeometryShapes
                     \X InstitutionValues \X CampaignValues \X AvailabilityValues :
                /\ t[4] \in FieldValues(t[1], "institution", InstitutionValues)
                /\ t[5] \in FieldValues(t[1], "campaign", CampaignValues)
                /\ t[6] \in FieldValues(t[1], "availability", AvailabilityValues)}}

\* Frames of two to MaxRows rows with an institution column, the grouping
\* fields varied.
GroupRows(cols) ==
    {Row(LineString(3000), i, c, a) :
        <<i, c, a>> \in InstitutionValues
                        \X FieldValues(cols, "campaign", {"2019", NaN})
                        \X FieldValues(cols, "availability", {"s", "u"})}

ManyRowFrames ==
    UNION {UNION {{Frame(cols, TargetCRS, rows) : rows \in [1..n -> GroupRows(cols)]} :
                    n \in 2..MaxRows} :
             cols \in {c \in SUBSET AllColumns : "institution" \in c}}

HarnessFrames == OneRowFrames \cup ManyRowFrames

InitLayer ==
    /\ script = GenerateStatistics
    /\ layers = <<>>
    /\ idx = 1
    /\ pc = "harness"
    /\ institution_summary = <<>>
    /\ all_statistics = <<>>
    /\ files = <<>>
    /\ overview_df = <<>>
    /\ gdf \in HarnessFrames
    /\ classified = gdf
    /\ results = <<>>

\* grouped = process_layer(gdf, statistics_folder, institution_summary)
CallProcessLayer ==
    /\ pc = "harness"
    /\ Len(results) < MaxCalls
    /\ LET r == process_layer(gdf, institution_summary, files, NoFault)
       IN  /\ gdf' = r.arg
           /\ classified' = r.frame
           /\ results' = Append(results, r.grouped)
           /\ institution_summary' = r.institution_summary
           /\ files' = r.files
    /\ UNCHANGED <<script, layers, idx, pc, all_statistics, overview_df>>

NextLayer == CallProcessLayer

SpecLayer == InitLayer /\ [][NextLayer]_vars

(***************************************************************************)
(* Properties                                                              *)
(***************************************************************************)
InstitutionSet == {InstitutionNames[k] : k \in DOMAIN InstitutionNames}

\* The number a formatted cell stands for.
RECURSIVE ParseCommas(_)
ParseCommas(groups) ==
    IF groups = <<>> THEN 0
    ELSE ParseCommas(SubSeq(groups, 1, Len(groups) - 1)) * 1000 + groups[Len(groups)]

TotalRows(table) == SelectSeq(table, LAMBDA r: r.campaign = "Total")

\* The raw per-layer rows of an institution's history.
RawRows(i) == concat(history_of(institution_summary, i))

\* A table was written for institution i in this step.
Emitted(i) ==
    /\ i \in DOMAIN files'
    /\ i \notin DOMAIN files \/ files'[i] # files[i]

\* The layer's handling neither failed to read nor met an exception.
Skipped(layer) == ~layer.readable \/ layer.fault # NoFault

\* The CampaignAggregate rows of a layer.
Aggregates(layer) ==
    IF layer.readable /\ "institution" \in layer.gdf.columns
    THEN groupby(classify(normalized(layer.gdf)).rows)
    ELSE <<>>

BatchOf(layer, i) == SelectSeq(Aggregates(layer), LAMBDA r: r.institution = i)

\* The run of the loop over a list of layers, and the overview after it.
RECURSIVE RunLoop(_, _, _)
RunLoop(scr, ls, state) ==
    IF ls = <<>> \/ state.crashed THEN state
    ELSE RunLoop(scr, Tail(ls),
                 loop_body(scr, Head(ls), state.institution_summary,
                           state.all_statistics, state.files))

Fresh == [institution_summary |-> <<>>, all_statistics |-> <<>>, files |-> <<>>,
          crashed |-> FALSE]

RunOverview(scr, ls) ==
    LET end == RunLoop(scr, ls, Fresh)
    IN  IF end.crashed \/ end.all_statistics = <<>>
        THEN [written |-> FALSE, rows |-> <<>>]
        ELSE [written |-> TRUE, rows |-> overview(end.all_statistics)]

\* C1: every table written for an institution has exactly one row whose
\* campaign is "Total", and that row's two distances are the sums over the raw
\* per-layer rows of the institution's history at that moment (the Total rows
\* of earlier tables are not in the sum).
C1_TotalRowIsSumOfRawRows ==
    [][\A i \in InstitutionSet :
          Emitted(i) =>
            LET totals == TotalRows(files'[i])
                raw == concat(history_of(institution_summary', i))
            IN  /\ Len(totals) = 1
                /\ ParseCommas(totals[1].total_distance_km)
                     = SumColumn(raw, "total_distance_km")
                /\ ParseCommas(totals[1].available_distance_km)
                     = SumColumn(raw, "available_distance_km")]_vars

\* C1 witness: an institution's table written from a history of two or more
\* batches, whose Total exceeds the last batch.
C1_Witness ==
    /\ pc = "loop"
    /\ "AWI" \in DOMAIN files
    /\ Len(history_of(institution_summary, "AWI")) >= 2
    /\ Len(files["AWI"]) = Len(RawRows("AWI")) + 1
    /\ ParseCommas(files["AWI"][Len(files["AWI"])].total_distance_km)
         > SumColumn(institution_summary["AWI"][Len(institution_summary["AWI"])],
                     "total_distance_km")

\* C2: once the overview is written, each institution's row holds the sums of
\* that institution's CampaignAggregate rows over the layers that were
\* processed, an institution without such rows has no row, and every
\* permutation of the layer list gives the same overview table.
C2_OverviewIsOrderIndependentSum ==
    pc = "done" =>
      /\ \A i \in InstitutionSet :
           LET rows == concat([k \in DOMAIN layers |->
                                 IF Skipped(layers[k]) THEN <<>>
                                 ELSE BatchOf(layers[k], i)])
               mine == SelectSeq(overview_df, LAMBDA r: r.institution = i)
           IN  IF rows = <<>> THEN mine = <<>>
               ELSE /\ Len(mine) = 1
                    /\ ParseCommas(mine[1].total_distance_km)
                         = SumColumn(rows, "total_distance_km")
                    /\ ParseCommas(mine[1].available_distance_km)
                         = SumColumn(rows, "available_distance_km")
      /\ \A p \in Permutations(DOMAIN layers) :
           RunOverview(script, [k \in DOMAIN layers |-> layers[p[k]]])
             = [written |-> TRUE, rows |-> overview_df]

\* C2 witness: an overview written after three layers of which two gave rows
\* for the same institution.
C2_Witness ==
    /\ pc = "done"
    /\ Len(layers) >= 3
    /\ Len(all_statistics) >= 2
    /\ layers[1] # layers[2]
    /\ \E r \in {overview_df[j] : j \in DOMAIN overview_df} :
          /\ r.institution = "BAS"
          /\ ParseCommas(r.total_distance_km) > 1000

\* The layer the loop is about to handle, when a step handles one.
AtLayer == pc = "loop" /\ idx <= Len(layers)
LayerStep == AtLayer /\ (idx' # idx \/ pc' # pc)

\* C3: at the end of a run every institution ever seen (it has a history or
\* a table) has an overview row, and that row's two distances are those of the
\* Total row of the institution's last table.
C3_OverviewEqualsLastTotal ==
    pc = "done" =>
      \A i \in DOMAIN institution_summary \cup DOMAIN files :
         /\ i \in DOMAIN files
         /\ \E j \in DOMAIN overview_df :
               LET last == files[i][Len(files[i])]
               IN  /\ overview_df[j].institution = i
                   /\ overview_df[j].total_distance_km = last.total_distance_km
                   /\ overview_df[j].available_distance_km = last.available_distance_km

\* C4: a layer that fails (its read or its processing) is skipped and the
\* loop goes on: the run is never ended inside the loop, and after any number
\* of layers the histories and the list feeding the overview are those of the
\* same run without the failed layers.
C4_FailedLayerIsIsolated ==
    /\ pc = "crashed" => idx > Len(layers)
    /\ pc \in {"loop", "done"} =>
         LET handled == SubSeq(layers, 1, idx - 1)
             clean == RunLoop(script, SelectSeq(handled, LAMBDA l: ~Skipped(l)), Fresh)
         IN  /\ institution_summary = clean.institution_summary
             /\ all_statistics = clean.all_statistics

\* C5: with no layers, or with only layers that are unreadable or lack an
\* institution column, the run ends without an unhandled error and writes no
\* table.
NoUsableLayer ==
    \A k \in DOMAIN layers :
       ~layers[k].readable \/ "institution" \notin layers[k].gdf.columns
C5_EmptyDatasetHaltsGracefully ==
    NoUsableLayer => pc # "crashed" /\ pc # "done" /\ files = <<>>

\* C6: handling a layer either updates the history and writes the table of
\* every institution of the layer, or changes no history and writes no table.
C6_NoPartialLayer ==
    [][LayerStep =>
         LET present == {i \in InstitutionSet : BatchOf(layers[idx], i) # <<>>}
             updated == {i \in InstitutionSet :
                            history_of(institution_summary', i)
                              # history_of(institution_summary, i)}
             emitted == {i \in InstitutionSet : Emitted(i)}
         IN  \/ updated = {} /\ emitted = {}
             \/ updated = present /\ emitted = present]_vars

\* C7: a second call of process_layer on the frame object a first call was
\* given returns the same grouped rows as the first.
C7_SecondCallReturnsSame ==
    Len(results) >= 2 => results[2] = results[1]

\* C8: handling a readable layer without an institution column changes no
\* history, writes no table, adds nothing to the list feeding the overview and
\* raises nothing: the loop moves to the next layer.
C8_NoInstitutionColumnChangesNothing ==
    [][(LayerStep /\ layers[idx].readable
                  /\ "institution" \notin layers[idx].gdf.columns) =>
          /\ institution_summary' = institution_summary
          /\ files' = files
          /\ all_statistics' = all_statistics
          /\ pc' = "loop"
          /\ idx' = idx + 1]_vars

\* C8 witness: a layer without an institution column has been handled after a
\* layer that filled a history.
C8_Witness ==
    /\ pc = "loop"
    /\ idx = 3
    /\ layers[2].readable
    /\ "institution" \notin layers[2].gdf.columns
    /\ institution_summary # <<>>
    /\ all_statistics # <<>>

\* C9: the per-campaign rows of an institution's current table are the
\* batches, in processing order, of the layers handled so far that contained
\* the institution (a skipped layer adds nothing), and an institution without
\* a table is in none of them.
C9_TableIsConcatenationOfBatches ==
    pc \in {"loop", "done"} =>
      \A i \in InstitutionSet :
         LET batches == concat([k \in 1..(idx - 1) |->
                                   IF Skipped(layers[k]) THEN <<>>
                                   ELSE BatchOf(layers[k], i)])
         IN  IF i \in DOMAIN files
             THEN /\ Len(files[i]) = Len(batches) + 1
                  /\ \A j \in DOMAIN batches :
                        /\ files[i][j].campaign = batches[j].campaign
                        /\ ParseCommas(files[i][j].total_distance_km)
                             = batches[j].total_distance_km
                        /\ ParseCommas(files[i][j].available_distance_km)
                             = batches[j].available_distance_km
             ELSE batches = <<>>

\* C10: every row of a frame process_layer has classified has a class among
\* yes, no and outdated, an available distance no larger than its total
\* distance (both at least 0), and a positive available distance only with
\* class yes; when the frame came without an availability column every row is
\* outdated with available distance 0.
C10_ClassifiedRows ==
    [][(results' # results /\ ~results'[Len(results')].is_none) =>
          \A j \in DOMAIN classified'.rows :
             LET row == classified'.rows[j]
             IN  /\ row.availability \in {"yes", "no", "outdated"}
                 /\ row.total_distance_km >= 0
                 /\ row.available_distance_km >= 0
                 /\ row.available_distance_km <= row.total_distance_km
                 /\ row.available_distance_km > 0 => row.availability = "yes"
                 /\ "availability" \notin gdf.columns =>
                       /\ row.availability = "outdated"
                       /\ row.available_distance_km = 0]_vars

\* C10 witness: a classified frame with a row of class yes and a positive
\* available distance, and one classified from a frame without an
\* availability column whose row has a positive total distance.
C10_Witness ==
    /\ Len(results) = 1
    /\ ~results[1].is_none
    /\ \E j \in DOMAIN classified.rows :
          /\ classified.rows[j].availability = "yes"
          /\ classified.rows[j].available_distance_km > 0
          /\ classified.rows[j].available_distance_km = classified.rows[j].total_distance_km

\* C11: after a call that grouped a frame, every classified row that carries
\* an institution lies in exactly one (institution, campaign) group of the
\* returned rows, whatever its campaign value, and for each institution the
\* total distance summed over the returned rows equals the total distance
\* summed over the classified rows carrying that institution.
C11_DistanceConservedPerInstitution ==
    (Len(results) >= 1 /\ ~results[Len(results)].is_none) =>
       LET grouped == results[Len(results)].rows
       IN  /\ \A j \in DOMAIN classified.rows :
                classified.rows[j].institution \in InstitutionSet =>
                  Cardinality({k \in DOMAIN grouped :
                                 /\ grouped[k].institution = classified.rows[j].institution
                                 /\ grouped[k].campaign = classified.rows[j].campaign}) = 1
           /\ \A i \in InstitutionSet :
                SumColumn(SelectSeq(grouped, LAMBDA r: r.institution = i),
                          "total_distance_km")
                  = SumColumn(SelectSeq(classified.rows, LAMBDA r: r.institution = i),
                              "total_distance_km")

====
